---- MODULE Spec2Model ----
(***************************************************************************)
(* JS-Filter: a browser-extension popup that lists the external scripts of *)
(* the active tab, lets the user mark some as blocked and removes them     *)
(* from the live page.                                                     *)
(*                                                                         *)
(*   scripts/script.js    two DOMContentLoaded handlers (H1, H2) that      *)
(*                        probe the tab and render the list                *)
(*   unnamed/part_000     one DOMContentLoaded handler (H3) that renders,  *)
(*                        restores and saves "blocked_<tabId>"             *)
(*   scripts/blocking.js  init, the delegated change handler, the blocked  *)
(*                        map under "blocked_scripts", the page mutator    *)
(*                                                                         *)
(* The popup is single threaded: every action below is one run-to-         *)
(* completion segment of a handler, from one await (or callback) to the    *)
(* next.  The browser side is modelled by what it answers: the tab query,  *)
(* the script injection and the two storage keys.  A storage area serves   *)
(* the requests of one extension in the order they were issued (qB, qT);   *)
(* tab queries and injections complete in any order.                       *)
(***************************************************************************)
EXTENDS Naturals, Sequences, FiniteSets, TLC

(* ------------------------------ bounds -------------------------------- *)
\* user events in one behaviour after the popup is first opened: checkbox
\* toggles, clicks on a button, closing the popup
MaxEvents == 2
\* script elements the page appends in one behaviour
MaxAdds == 1

(* ------------------------------- URLs --------------------------------- *)
A == "https://cdn.a/x.js"
B == "https://cdn.b/y.js"
\* a key blocked earlier on some other page (the key blocked_scripts is global)
Other == "https://cdn.c/z.js"
TabUrl == "https://example.com/page"
PopupUrl == "chrome-extension://id/popup.html"
RelApp == "/app.js"
\* a value new URL() rejects with any base; a script element whose src attribute
\* does not parse reports the attribute text as its src
BadRaw == "http://["
Origin(base) == IF base = TabUrl THEN "https://example.com" ELSE "chrome-extension://id"
AbsUrls == {A, B, Other, TabUrl, PopupUrl}

\* new URL(rawUrl, base).href, with the catch branch returning rawUrl || ""
toAbsolute(rawUrl, base) ==
  IF rawUrl \in AbsUrls THEN rawUrl
  ELSE IF rawUrl = "" THEN base
  ELSE IF rawUrl = RelApp THEN Origin(base) \o rawUrl
  ELSE rawUrl                    \* new URL threw: the raw value comes back

MsgNoTab == "No active tab found."
MsgNoJs == "No external JS files found."
MsgError == "Error: injection failed"

(* ------------------------------ the page ------------------------------ *)
\* a script element of the tab's document: its resolved src ("" for an inline
\* script) and how it got there: parsed from the markup, appended directly, or
\* appended inside another element (a subtree)
Elem(src, how) == [src |-> src, how |-> how]
ElemOrder == << Elem(A, "static"), Elem(B, "static"), Elem("", "static"),
                Elem(BadRaw, "static"),
                Elem(A, "direct"), Elem(A, "nested"), Elem("", "direct") >>
DynElems == { Elem(A, "direct"), Elem(A, "nested"), Elem("", "direct") }
\* the markup of the pages considered: no script at all; A, B and an inline one;
\* one script whose src attribute is not a URL
PageChoices == { {}, {Elem(A, "static"), Elem(B, "static"), Elem("", "static")},
                 {Elem(BadRaw, "static")} }

\* the probe: Array.from(document.scripts).map(s => s.src).filter(Boolean)
RECURSIVE ProbeFrom(_, _)
ProbeFrom(d, i) ==
  IF i > Len(ElemOrder) THEN << >>
  ELSE IF ElemOrder[i] \in d /\ ElemOrder[i].src # ""
       THEN << ElemOrder[i].src >> \o ProbeFrom(d, i + 1)
       ELSE ProbeFrom(d, i + 1)
Probe(d) == ProbeFrom(d, 1)

\* Sweep with a fault: every script element that has a src is removed
SweepAnySrc(d, blockedSet) == { e \in d : e.src = "" }

\* the injected function's sweep: every script element whose src is set and is in
\* the blocked set is removed
Sweep(d, blockedSet) == { e \in d : ~(e.src # "" /\ toAbsolute(e.src, TabUrl) \in blockedSet) }

\* the MutationObserver callback on one added node n: only a node that is itself
\* a script element is looked at; a script inside an added subtree is not a
\* member of addedNodes
ObserverRemoves(n, blockedSet) ==
  /\ n.how = "direct"
  /\ n.src # ""
  /\ toAbsolute(n.src, TabUrl) \in blockedSet

(* ------------------------------ the list ------------------------------ *)
EmptyList == [msg |-> "", rows |-> << >>]
MsgList(m) == [msg |-> m, rows |-> << >>]
Row(u) == [url |-> u, checked |-> FALSE]

\* Render with a fault: the rows are appended without list.innerHTML = "" before
RenderNoClear(l, srcs) ==
  IF Len(srcs) = 0 THEN MsgList(MsgNoJs)
  ELSE [l EXCEPT !.rows = @ \o [i \in 1..Len(srcs) |-> Row(srcs[i])]]

\* list.innerHTML = ""; then either the informational row replaces the content
\* or one row per script is appended
Render(l, srcs) ==
  LET cleared == [l EXCEPT !.msg = "", !.rows = << >>]
  IN IF Len(srcs) = 0 THEN MsgList(MsgNoJs)
     ELSE [cleared EXCEPT !.rows = @ \o [i \in 1..Len(srcs) |-> Row(srcs[i])]]

(* ------------------------------ state --------------------------------- *)
VARIABLES
  tabCase,          \* what chrome.tabs.query answers: "ok", "noid", "none"
  restricted,       \* the page refuses script injection
  variant,          \* which popup script is loaded: "script" (H1, H2) or "popup" (H3)
  page,             \* the script elements of the page's markup
  doc,              \* the script elements of the live document
  observed,         \* URLs some MutationObserver of this page load removes
  adds,             \* script elements the page has appended
  lastAdd,          \* history: the script element the page appended last
  call,             \* a call of removeScriptsInTab about to run: its arguments
  reloadPending,    \* chrome.tabs.reload calls issued and not yet carried out
  store0,           \* history: the value under "blocked_scripts" at the start
  store,            \* the value under "blocked_scripts": the set of keys
  tabStore,         \* the value under "blocked_<tabId>": an array of titles
  qB,               \* storage requests of blocking.js, in issue order
  qT,               \* storage requests of part_000, in issue order
  orphanInj,        \* injections in flight whose popup has closed
  popupOpen,
  list,             \* #script-list
  gen,              \* generation of the row elements now in the list
  hpc,              \* position of each DOMContentLoaded handler
  scripts,          \* each handler's local `scripts`
  refreshListeners, \* click listeners on #refresh-btn
  saveAttached,     \* click listener on #save-btn
  changeAttached,   \* delegated change listener on the list
  execCalled,       \* executeScript has been called in this popup opening
  ipc,              \* position of init's populate block
  iBlocked,         \* its local `blocked`
  iGen,             \* the generation of its local `inputs`
  ch,               \* the onCheckboxChange activations
  nEvents

vars == << tabCase, restricted, variant, page, doc, observed, adds, lastAdd, call,
           reloadPending, store0,
           store, tabStore, qB, qT, orphanInj, popupOpen,  list, gen, hpc, scripts,
           refreshListeners, saveAttached, changeAttached, execCalled, ipc, iBlocked,
           iGen, ch, nEvents >>

envVars == << tabCase, restricted, variant, page, store0 >>
pageVars == << doc, observed, adds, reloadPending >>
mutVars == << lastAdd, call >>
NoElem == Elem("", "none")
NoCall == [tabId |-> "", urls |-> {}]

Handlers == {"H1", "H2", "H3"}
HandlersOf(v) == IF v = "script" THEN {"H1", "H2"} ELSE {"H3"}
Events == 1..MaxEvents

IdleCh == [pc |-> "idle", tgen |-> 0, tidx |-> 0, chk |-> FALSE, raw |-> "",
           urlKey |-> "", shouldBlock |-> FALSE, map |-> {}, on |-> FALSE]

\* the environments considered: a restricted page and a missing tab are taken
\* with the page that has scripts (its markup is never seen by the popup)
FullPage == {Elem(A, "static"), Elem(B, "static"), Elem("", "static")}
EnvChoices ==
  { [tab |-> "ok", restricted |-> FALSE, page |-> pg] : pg \in PageChoices } \cup
  { [tab |-> "ok", restricted |-> TRUE, page |-> FullPage],
    [tab |-> "noid", restricted |-> FALSE, page |-> FullPage],
    [tab |-> "none", restricted |-> FALSE, page |-> FullPage] }

InitPopup ==
  /\ \E e \in EnvChoices : tabCase = e.tab /\ restricted = e.restricted /\ page = e.page
  /\ variant \in {"script", "popup"}
  /\ doc = page
  /\ observed = {}
  /\ adds = 0
  /\ lastAdd = NoElem
  /\ reloadPending = 0
  /\ store \in SUBSET {B, Other}
  /\ store0 = store
  /\ tabStore = << >>
  /\ qB = << >>
  /\ qT = << >>
  /\ orphanInj = {}
  /\ popupOpen = FALSE
  /\ list = EmptyList
  /\ gen = 0
  /\ hpc = [h \in Handlers |-> "off"]
  /\ scripts = [h \in Handlers |-> << >>]
  /\ refreshListeners = 0
  /\ saveAttached = FALSE
  /\ changeAttached = FALSE
  /\ execCalled = FALSE
  /\ ipc = "off"
  /\ iBlocked = {}
  /\ iGen = 0
  /\ ch = [h \in Events |-> IdleCh]
  /\ nEvents = 0

\* the popup has not been opened yet; no call of removeScriptsInTab is under way
Init == InitPopup /\ call = NoCall

(* -------------------- blocking.js: storage helpers -------------------- *)
InitWho == 0
Req(op, who, val) == [op |-> op, who |-> who, val |-> val, live |-> TRUE]

\* storageGet: the callback resolves with res || {}; chrome.runtime.lastError is
\* not looked at, so a failed read resolves with {}
storageGet(ok) == IF ok THEN store ELSE {}
\* getBlockedMap with a fault: the value is looked up under another key than the
\* one setBlockedMap writes
getBlockedMapOtherKey(ok) == {}

\* getBlockedMap: res[STORAGE_KEY] || {}
getBlockedMap(ok) == storageGet(ok)
\* storageSet / setBlockedMap: the value under blocked_scripts after the write;
\* a failed write leaves it, and the promise resolves all the same
setBlockedMap(map, ok) == IF ok THEN map ELSE store
\* updateBlockedEntry with a fault: the key is set whatever shouldBlock is
updateBlockedEntryNoDelete(got, urlKey, shouldBlock) == got \cup {urlKey}

\* updateBlockedEntry between its two awaits: the map read, with urlKey set or deleted
updateBlockedEntry(got, urlKey, shouldBlock) ==
  IF shouldBlock THEN got \cup {urlKey} ELSE got \ {urlKey}

(* ------------------- opening and closing the popup -------------------- *)
\* init: the delegated change listener is attached first, synchronously; the
\* populate block then starts and suspends at getBlockedMap
init ==
  /\ changeAttached' = TRUE
  /\ ipc' = "get"
  /\ qB' = Append(qB, Req("get", InitWho, {}))
  /\ iBlocked' = {}
  /\ iGen' = 0

\* DOMContentLoaded: every registered handler runs up to its first await
Open ==
  /\ ~popupOpen
  /\ popupOpen' = TRUE
  /\ hpc' = [h \in Handlers |-> IF h \in HandlersOf(variant) THEN "query" ELSE "off"]
  /\ init
  /\ UNCHANGED << envVars, mutVars, pageVars, store, tabStore, qT, orphanInj, list, gen, scripts,
                  refreshListeners, saveAttached, execCalled, ch, nEvents >>

Unlive(q) == [i \in 1..Len(q) |-> [q[i] EXCEPT !.live = FALSE, !.who = InitWho]]

\* the popup window goes away: its handlers never resume; requests already
\* handed to the browser are still carried out
Close ==
  /\ popupOpen
  /\ nEvents < MaxEvents
  /\ popupOpen' = FALSE
  /\ hpc' = [h \in Handlers |-> "off"]
  /\ ipc' = "off"
  /\ qB' = Unlive(qB)
  /\ qT' = Unlive(qT)
  /\ orphanInj' = orphanInj \cup { ch[h].urlKey : h \in { k \in Events : ch[k].pc = "inject" } }
  /\ ch' = [h \in Events |-> IdleCh]
  /\ changeAttached' = FALSE
  /\ refreshListeners' = 0
  /\ saveAttached' = FALSE
  /\ list' = EmptyList
  /\ gen' = 0
  /\ scripts' = [h \in Handlers |-> << >>]
  /\ execCalled' = FALSE
  /\ iBlocked' = {}
  /\ iGen' = 0
  /\ nEvents' = nEvents + 1
  /\ UNCHANGED << envVars, mutVars, pageVars, store, tabStore >>

(* --------------- script.js / part_000: loading the list --------------- *)
ProbeFails == restricted \/ tabCase # "ok"
NextGen(l) == IF Len(l.rows) > 0 THEN gen + 1 ELSE gen

\* H1 after `await chrome.tabs.query`: no guard on the tab
H1Query ==
  /\ popupOpen /\ hpc["H1"] = "query"
  /\ \/ /\ tabCase = "none"                 \* tab.id throws, nothing catches it
        /\ hpc' = [hpc EXCEPT !["H1"] = "threw"]
        /\ UNCHANGED << execCalled, refreshListeners >>
     \/ /\ tabCase = "noid"                 \* executeScript is called with tabId undefined
        /\ execCalled' = TRUE
        /\ \/ /\ hpc' = [hpc EXCEPT !["H1"] = "threw"]
              /\ UNCHANGED refreshListeners
           \/ /\ hpc' = [hpc EXCEPT !["H1"] = "probe"]
              /\ refreshListeners' = refreshListeners + 1
     \/ /\ tabCase = "ok"
        /\ execCalled' = TRUE
        /\ hpc' = [hpc EXCEPT !["H1"] = "probe"]
        /\ refreshListeners' = refreshListeners + 1
  /\ UNCHANGED << envVars, mutVars, pageVars, store, tabStore, qB, qT, orphanInj, popupOpen, 
                  list, gen, scripts, saveAttached, changeAttached, ipc, iBlocked, iGen,
                  ch, nEvents >>

\* H1's executeScript callback: results?.[0]?.result || []
H1Probe ==
  /\ popupOpen /\ hpc["H1"] = "probe"
  /\ LET srcs == IF ProbeFails THEN << >> ELSE Probe(doc)
         l == Render(list, srcs)
     IN /\ scripts' = [scripts EXCEPT !["H1"] = srcs]
        /\ list' = l
        /\ gen' = NextGen(l)
  /\ hpc' = [hpc EXCEPT !["H1"] = "done"]
  /\ UNCHANGED << envVars, mutVars, pageVars, store, tabStore, qB, qT, orphanInj, popupOpen, 
                  refreshListeners, saveAttached, changeAttached, execCalled, ipc, iBlocked,
                  iGen, ch, nEvents >>

\* H2 and H3 after `await chrome.tabs.query`: the guard !tab?.id
GuardedQuery(h) ==
  /\ popupOpen /\ hpc[h] = "query"
  /\ IF tabCase # "ok"
     THEN /\ list' = MsgList(MsgNoTab)
          /\ hpc' = [hpc EXCEPT ![h] = "done"]
          /\ UNCHANGED execCalled
     ELSE /\ execCalled' = TRUE
          /\ hpc' = [hpc EXCEPT ![h] = "probe"]
          /\ UNCHANGED list
  /\ UNCHANGED << envVars, mutVars, pageVars, store, tabStore, qB, qT, orphanInj, popupOpen, 
                  gen, scripts, refreshListeners, saveAttached, changeAttached, ipc,
                  iBlocked, iGen, ch, nEvents >>

H2Query == GuardedQuery("H2")
H3Query == GuardedQuery("H3")

\* H2 after `await chrome.scripting.executeScript`
H2Probe ==
  /\ popupOpen /\ hpc["H2"] = "probe"
  /\ hpc' = [hpc EXCEPT !["H2"] = "done"]
  /\ IF ProbeFails
     THEN /\ list' = MsgList(MsgError)       \* the catch block
          /\ UNCHANGED << gen, scripts, refreshListeners >>
     ELSE LET srcs == Probe(doc)
              l == Render(list, srcs)
          IN /\ scripts' = [scripts EXCEPT !["H2"] = srcs]
             /\ list' = l
             /\ gen' = NextGen(l)
             /\ refreshListeners' = IF Len(srcs) = 0 THEN refreshListeners
                                    ELSE refreshListeners + 1
  /\ UNCHANGED << envVars, mutVars, pageVars, store, tabStore, qB, qT, orphanInj, popupOpen, 
                  saveAttached, changeAttached, execCalled, ipc, iBlocked, iGen, ch, nEvents >>

\* H3 after `await chrome.scripting.executeScript`: render, ask for the saved
\* state, attach the save handler
H3Probe ==
  /\ popupOpen /\ hpc["H3"] = "probe"
  /\ IF ProbeFails
     THEN /\ list' = MsgList(MsgError)
          /\ hpc' = [hpc EXCEPT !["H3"] = "done"]
          /\ UNCHANGED << gen, scripts, qT, saveAttached >>
     ELSE LET srcs == Probe(doc)
              l == Render(list, srcs)
          IN /\ scripts' = [scripts EXCEPT !["H3"] = srcs]
             /\ list' = l
             /\ gen' = NextGen(l)
             /\ IF Len(srcs) = 0
                THEN /\ hpc' = [hpc EXCEPT !["H3"] = "done"]
                     /\ UNCHANGED << qT, saveAttached >>
                ELSE /\ hpc' = [hpc EXCEPT !["H3"] = "restore"]
                     /\ qT' = Append(qT, Req("get", InitWho, << >>))
                     /\ saveAttached' = TRUE
  /\ UNCHANGED << envVars, mutVars, pageVars, store, tabStore, qB, orphanInj, popupOpen, 
                  refreshListeners, changeAttached, execCalled, ipc, iBlocked, iGen, ch,
                  nEvents >>

(* ----------------- blocking.js: the change handler -------------------- *)
\* an activation that has returned: its locals are gone, the event is remembered
Done(c) == [IdleCh EXCEPT !.pc = "done", !.tgen = c.tgen, !.tidx = c.tidx, !.raw = c.raw,
                          !.on = c.on]
TabBase == IF tabCase = "none" THEN PopupUrl ELSE TabUrl
Pending(c) == c.pc \in {"url", "get", "set", "tab", "inject"}
SameTarget(c, g, i) == Pending(c) /\ c.tgen = g /\ c.tidx = i

\* the user clicks the checkbox of row i; the delegated listener starts
\* onCheckboxChange, which runs up to the tab query of getUrlFromCheckbox
UserToggle(i) ==
  /\ popupOpen /\ changeAttached
  /\ i \in 1..Len(list.rows)
  /\ nEvents < MaxEvents
  /\ LET now == ~list.rows[i].checked
         h == nEvents + 1
     IN /\ list' = [list EXCEPT !.rows[i].checked = now]
        /\ ch' = [k \in Events |->
                   IF k = h
                   THEN [IdleCh EXCEPT !.pc = "url", !.tgen = gen, !.tidx = i, !.chk = now,
                                       !.raw = list.rows[i].url, !.on = now]
                   ELSE IF SameTarget(ch[k], gen, i) THEN [ch[k] EXCEPT !.chk = now]
                   ELSE ch[k]]
        /\ nEvents' = h
  /\ UNCHANGED << envVars, mutVars, pageVars, store, tabStore, qB, qT, orphanInj, popupOpen, 
                  gen, hpc, scripts, refreshListeners, saveAttached, changeAttached,
                  execCalled, ipc, iBlocked, iGen >>

\* getUrlFromCheckbox resumes; onCheckboxChange reads target.checked as it is
\* now and calls updateBlockedEntry, which suspends at getBlockedMap
ChUrl(h) ==
  /\ popupOpen /\ ch[h].pc = "url"
  /\ LET urlKey == toAbsolute(ch[h].raw, TabBase)
     IN IF urlKey = ""
        THEN /\ ch' = [ch EXCEPT ![h] = Done(ch[h])]
             /\ UNCHANGED qB
        ELSE /\ ch' = [ch EXCEPT ![h].pc = "get", ![h].urlKey = urlKey,
                                 ![h].shouldBlock = ch[h].chk]
             /\ qB' = Append(qB, Req("get", h, {}))
  /\ UNCHANGED << envVars, mutVars, pageVars, store, tabStore, qT, orphanInj, popupOpen,  list,
                  gen, hpc, scripts, refreshListeners, saveAttached, changeAttached,
                  execCalled, ipc, iBlocked, iGen, nEvents >>

\* the storage area answers the oldest request of blocking.js
QBStep(ok) ==
  /\ qB # << >>
  /\ LET r == Head(qB)
     IN \/ /\ r.op = "get" /\ r.live /\ r.who # InitWho    \* updateBlockedEntry goes on
           /\ LET map == updateBlockedEntry(getBlockedMap(ok), ch[r.who].urlKey,
                                            ch[r.who].shouldBlock)
              IN /\ ch' = [ch EXCEPT ![r.who].pc = "set", ![r.who].map = map]
                 /\ qB' = Append(Tail(qB), Req("set", r.who, map))
           /\ UNCHANGED << store, ipc, iBlocked, iGen >>
        \/ /\ r.op = "get" /\ r.live /\ r.who = InitWho    \* init's populate block goes on
           /\ IF Len(list.rows) = 0
              THEN ipc' = "done" /\ iBlocked' = {} /\ iGen' = 0
              ELSE ipc' = "query" /\ iBlocked' = getBlockedMap(ok) /\ iGen' = gen
           /\ qB' = Tail(qB)
           /\ UNCHANGED << store, ch >>
        \/ /\ r.op = "get" /\ ~r.live
           /\ qB' = Tail(qB)
           /\ UNCHANGED << store, ch, ipc, iBlocked, iGen >>
        \/ /\ r.op = "set"                                 \* onCheckboxChange goes on
           /\ store' = setBlockedMap(r.val, ok)
           /\ ch' = IF r.live THEN [ch EXCEPT ![r.who].pc = "tab", ![r.who].map = {}] ELSE ch
           /\ qB' = Tail(qB)
           /\ UNCHANGED << ipc, iBlocked, iGen >>
  /\ UNCHANGED << envVars, mutVars, pageVars, tabStore, qT, orphanInj, popupOpen,  list, gen,
                  hpc, scripts, refreshListeners, saveAttached, changeAttached, execCalled,
                  nEvents >>

\* ChTab with a fault: the page is mutated whether the box is checked or not
ChTabAlways(h) ==
  /\ popupOpen /\ ch[h].pc = "tab"
  /\ ch' = [ch EXCEPT ![h].pc = "inject"]
  /\ execCalled' = TRUE
  /\ UNCHANGED << envVars, mutVars, pageVars, store, tabStore, qB, qT, orphanInj, popupOpen,
                  list, gen, hpc, scripts, refreshListeners, saveAttached, changeAttached,
                  ipc, iBlocked, iGen, nEvents >>

\* onCheckboxChange after its second tab query: inject only when the tab has an
\* id and the box is checked now
ChTab(h) ==
  /\ popupOpen /\ ch[h].pc = "tab"
  /\ IF tabCase = "ok" /\ ch[h].chk
     THEN /\ ch' = [ch EXCEPT ![h].pc = "inject"]
          /\ execCalled' = TRUE
     ELSE /\ ch' = [ch EXCEPT ![h] = Done(ch[h])]
          /\ UNCHANGED execCalled
  /\ UNCHANGED << envVars, mutVars, pageVars, store, tabStore, qB, qT, orphanInj, popupOpen, 
                  list, gen, hpc, scripts, refreshListeners, saveAttached, changeAttached,
                  ipc, iBlocked, iGen, nEvents >>

\* removeScriptsInTab: nothing is injected without a tab id or without URLs;
\* else the injected function runs in the page: the sweep, then the observer,
\* both over the resolved URLs; on a page that refuses injection the error is
\* caught
removeScriptsInTab(tabId, urls) ==
  IF tabId # "ok" \/ urls = {}
  THEN UNCHANGED << doc, observed >>
  ELSE IF restricted
  THEN UNCHANGED << doc, observed >>
  ELSE LET blockedSet == { toAbsolute(u, TabUrl) : u \in urls }
       IN /\ doc' = Sweep(doc, blockedSet)
          /\ observed' = observed \cup blockedSet

\* removeScriptsInTab called with the arguments in `call`
MutatorCall ==
  /\ call # NoCall
  /\ removeScriptsInTab(call.tabId, call.urls)
  /\ call' = NoCall
  /\ UNCHANGED << envVars, lastAdd, adds, reloadPending, store, tabStore, qB, qT, orphanInj,
                  popupOpen, list, gen, hpc, scripts, refreshListeners, saveAttached,
                  changeAttached, execCalled, ipc, iBlocked, iGen, ch, nEvents >>

ChInject(h) ==
  /\ popupOpen /\ ch[h].pc = "inject"
  /\ removeScriptsInTab(tabCase, {ch[h].urlKey})
  /\ ch' = [ch EXCEPT ![h] = Done(ch[h])]
  /\ UNCHANGED << envVars, mutVars, adds, reloadPending, store, tabStore, qB, qT, orphanInj, popupOpen,
                   list, gen, hpc, scripts, refreshListeners, saveAttached,
                  changeAttached, execCalled, ipc, iBlocked, iGen, nEvents >>

\* an injection issued by a popup that has since closed still runs in the tab
OrphanInject(u) ==
  /\ u \in orphanInj
  /\ removeScriptsInTab(tabCase, {u})
  /\ orphanInj' = orphanInj \ {u}
  /\ UNCHANGED << envVars, mutVars, adds, reloadPending, store, tabStore, qB, qT, popupOpen,  list,
                  gen, hpc, scripts, refreshListeners, saveAttached, changeAttached,
                  execCalled, ipc, iBlocked, iGen, ch, nEvents >>

\* init's populate block after its tab query: every input captured before the
\* await is checked when its URL is a key of `blocked`
InitPopulate ==
  /\ popupOpen /\ ipc = "query"
  /\ LET hit(raw) == LET abs == toAbsolute(raw, TabBase) IN abs # "" /\ abs \in iBlocked
     IN /\ list' = IF iGen = gen
                   THEN [list EXCEPT !.rows = [i \in 1..Len(list.rows) |->
                           [list.rows[i] EXCEPT !.checked = @ \/ hit(list.rows[i].url)]]]
                   ELSE list
        /\ ch' = [k \in Events |->
                   IF Pending(ch[k]) /\ ch[k].tgen = iGen
                   THEN [ch[k] EXCEPT !.chk = @ \/ hit(ch[k].raw)]
                   ELSE ch[k]]
  /\ ipc' = "done"
  /\ iBlocked' = {}
  /\ iGen' = 0
  /\ UNCHANGED << envVars, mutVars, pageVars, store, tabStore, qB, qT, orphanInj, popupOpen, 
                  gen, hpc, scripts, refreshListeners, saveAttached, changeAttached,
                  execCalled, nEvents >>

(* ------------------ part_000: restore and save ------------------------ *)
InSeq(x, sq) == \E i \in 1..Len(sq) : sq[i] = x
CheckedTitles(l) == LET pick(r) == r.checked IN
  [i \in 1..Len(SelectSeq(l.rows, pick)) |-> SelectSeq(l.rows, pick)[i].url]

\* the storage area answers the oldest request of part_000
QTStep(ok) ==
  /\ qT # << >>
  /\ qT' = Tail(qT)
  /\ LET r == Head(qT)
     IN \/ /\ r.op = "get" /\ r.live            \* the restore callback
           /\ hpc' = [hpc EXCEPT !["H3"] = "done"]
           /\ IF ok
              THEN /\ list' = [list EXCEPT !.rows = [i \in 1..Len(list.rows) |->
                        [list.rows[i] EXCEPT !.checked = @ \/ InSeq(list.rows[i].url, tabStore)]]]
                   /\ ch' = [k \in Events |->
                              IF Pending(ch[k]) /\ ch[k].tgen = gen
                              THEN [ch[k] EXCEPT !.chk = @ \/ InSeq(ch[k].raw, tabStore)]
                              ELSE ch[k]]
              ELSE UNCHANGED << list, ch >>
           /\ UNCHANGED tabStore
        \/ /\ r.op = "get" /\ ~r.live
           /\ UNCHANGED << hpc, list, ch, tabStore >>
        \/ /\ r.op = "set"                       \* the save callback only logs
           /\ tabStore' = IF ok THEN r.val ELSE tabStore
           /\ UNCHANGED << hpc, list, ch >>
  /\ UNCHANGED << envVars, mutVars, pageVars, store, qB, orphanInj, popupOpen,  gen, scripts,
                  refreshListeners, saveAttached, changeAttached, execCalled, ipc, iBlocked,
                  iGen, nEvents >>

\* the save handler: the write is issued and, without waiting for it, the reload
SaveClick ==
  /\ popupOpen /\ saveAttached
  /\ nEvents < MaxEvents
  /\ nEvents' = nEvents + 1
  /\ qT' = Append(qT, Req("set", InitWho, CheckedTitles(list)))
  /\ reloadPending' = reloadPending + 1
  /\ UNCHANGED << envVars, mutVars, doc, observed, adds, store, tabStore, qB, orphanInj, popupOpen, 
                  list, gen, hpc, scripts, refreshListeners, saveAttached, changeAttached,
                  execCalled, ipc, iBlocked, iGen, ch >>

(* ------------------ script.js: the refresh button --------------------- *)
\* every click listener on #refresh-btn calls chrome.tabs.reload
RefreshClick ==
  /\ popupOpen /\ refreshListeners > 0
  /\ nEvents < MaxEvents
  /\ nEvents' = nEvents + 1
  /\ reloadPending' = reloadPending + refreshListeners
  /\ UNCHANGED << envVars, mutVars, doc, observed, adds, store, tabStore, qB, qT, orphanInj, popupOpen,
                   list, gen, hpc, scripts, refreshListeners, saveAttached,
                  changeAttached, execCalled, ipc, iBlocked, iGen, ch >>

(* ------------------------------ the tab ------------------------------- *)
\* a reload is carried out: the markup is parsed again, observers are gone
PageReload ==
  /\ reloadPending > 0
  /\ reloadPending' = reloadPending - 1
  /\ doc' = page
  /\ observed' = {}
  /\ UNCHANGED << envVars, mutVars, adds, store, tabStore, qB, qT, orphanInj, popupOpen,  list, gen,
                  hpc, scripts, refreshListeners, saveAttached, changeAttached, execCalled,
                  ipc, iBlocked, iGen, ch, nEvents >>

\* the page appends a script element; the observer callbacks run before anything
\* else can look at the document
PageAdd(e) ==
  /\ adds < MaxAdds
  /\ e \notin doc
  /\ adds' = adds + 1
  /\ lastAdd' = e
  /\ doc' = IF ObserverRemoves(e, observed) THEN doc ELSE doc \cup {e}
  /\ UNCHANGED << envVars, call, observed, reloadPending, store, tabStore, qB, qT, orphanInj,
                  popupOpen,  list, gen, hpc, scripts, refreshListeners, saveAttached,
                  changeAttached, execCalled, ipc, iBlocked, iGen, ch, nEvents >>

(* --------------------------- specifications --------------------------- *)
Next ==
  \/ Open
  \/ Close
  \/ H1Query
  \/ H1Probe
  \/ H2Query
  \/ H2Probe
  \/ H3Query
  \/ H3Probe
  \/ \E i \in 1..(2 * Len(ElemOrder)) : UserToggle(i)
  \/ \E h \in Events : ChUrl(h)
  \/ QBStep(TRUE)
  \/ \E h \in Events : ChTab(h)
  \/ \E h \in Events : ChInject(h)
  \/ \E u \in AbsUrls : OrphanInject(u)
  \/ InitPopulate
  \/ QTStep(TRUE)
  \/ SaveClick
  \/ RefreshClick
  \/ PageReload

\* the program with a storage area that always succeeds
Spec == Init /\ [][Next]_vars

\* the program on a page that appends script elements while it is shown
NextPage == Next \/ \E e \in DynElems : PageAdd(e)
SpecPage == Init /\ [][NextPage]_vars

\* the program with storage reads and writes that may fail (chrome.runtime.lastError)
NextFail == Next \/ QBStep(FALSE) \/ QTStep(FALSE)
SpecFail == Init /\ [][NextFail]_vars

\* removeScriptsInTab on its own: called once with any tab id and any set of
\* URLs, on a page that appends script elements before and after the call
Calls == [tabId : {"ok", "noid"}, urls : SUBSET {A, B, BadRaw}]
InitMutator == InitPopup /\ call \in Calls
NextMutator == MutatorCall \/ \E e \in DynElems : PageAdd(e)
SpecMutator == InitMutator /\ [][NextMutator]_vars

(* ------------------------------ claims -------------------------------- *)
ElA == Elem(A, "static")
ElB == Elem(B, "static")
Active == HandlersOf(variant)
\* every DOMContentLoaded handler of the popup has run to its end, the restore
\* callback and init's populate block included
LoadDone ==
  /\ popupOpen
  /\ \A h \in Active : hpc[h] \in {"done", "threw"}
  /\ ipc = "done"
Started(h) == ch[h].pc # "idle"
Finished(h) == ch[h].pc = "done"
\* the only user events so far are checkbox toggles 1..n, and their handlers have returned
OnlyToggles(n) == nEvents = n /\ \A h \in 1..n : Finished(h)

\* C1: on a page with the scripts A and B and an empty Blocked Map, once the
\* handler of the user's check of A has completed the map is exactly {A}; and
\* when the tab is then reloaded with the map {A}, the reloaded page has no
\* script element for A and still has the one for B.
C1_BlockThenReload ==
  [][ /\ (OnlyToggles(1)' /\ ch'[1].on /\ ch'[1].raw = A /\ store0 = {}) => store' = {A}
      /\ (reloadPending' < reloadPending /\ page = FullPage /\ store = {A})
           => (ElA \notin doc' /\ ElB \in doc') ]_vars

C3_NoTabNoInjection ==
  (popupOpen /\ tabCase # "ok") =>
    /\ ~execCalled
    /\ LoadDone => list = MsgList(MsgNoTab)

\* C4: when the first two user events are a check and then an uncheck of the
\* same checkbox, whose URL u is not in the prior Blocked Map M, then once both
\* change handlers have completed the Blocked Map is M again.
C4_ToggleOnOffRestores ==
  ( /\ OnlyToggles(2)
    /\ ch[1].on /\ ~ch[2].on
    /\ ch[1].tgen = ch[2].tgen /\ ch[1].tidx = ch[2].tidx
    /\ ch[1].raw \notin store0 ) => store = store0
\* the box of A was checked and unchecked, and both handlers have returned
C4_Witness ==
  /\ OnlyToggles(2)
  /\ ch[1].on /\ ~ch[2].on
  /\ ch[1].tgen = ch[2].tgen /\ ch[1].tidx = ch[2].tidx
  /\ ch[1].raw = A /\ store0 = {Other}
  /\ store = {Other}

\* C5: a write of update(u, true) leaves u stored under the key, and every read
\* (of a change handler, of init's populate block) returns exactly the keys that
\* are stored at that moment: a URL stored as blocked is in the map a later
\* get() returns, until a later write drops it.
C5_RoundTrip ==
  [][ /\ \A h \in Events :
           /\ (ch[h].pc = "set" /\ ch'[h].pc = "tab" /\ ch[h].shouldBlock)
                => ch[h].urlKey \in store'
           /\ (ch[h].pc = "get" /\ ch'[h].pc = "set")
                => ch'[h].map \ {ch[h].urlKey} = store \ {ch[h].urlKey}
      /\ (ipc = "get" /\ ipc' = "query") => iBlocked' = store ]_vars
\* a reopened popup has read back the key A that a toggle stored
C5_Witness == ipc = "query" /\ A \in iBlocked /\ A \in store

\* C6: after two change handlers for checkboxes of different URLs have both
\* completed, the Blocked Map reflects both changes.
C6_UpdatesNotLost ==
  (OnlyToggles(2) /\ ch[1].raw # ch[2].raw) =>
    \A h \in 1..2 : (ch[h].raw \in store) = ch[h].on

\* C7: no change event is handled while the initial render or reconcile is
\* still in progress: a change handler exists only once the loading sequence
\* (tab query, probe, render, reconcile) of every handler has finished.
C7_HandlerAfterLoad ==
  (popupOpen /\ \E h \in Events : Started(h)) => LoadDone

\* C8: when the popup is reopened with A in the Blocked Map (stored by a toggle
\* of an earlier opening) and A among the page's scripts, then once loading has
\* finished, and before any toggle, the row of A is checked and every row whose
\* URL is not in the map is unchecked.
C8_ReconcileAfterRender ==
  (LoadDone /\ nEvents > 0 /\ qB = << >> /\ A \in store /\ \A h \in Events : ~Started(h)) =>
    \A i \in 1..Len(list.rows) :
      /\ list.rows[i].url = A => list.rows[i].checked
      /\ list.rows[i].url \notin store => ~list.rows[i].checked

\* C9: while an observer for URL u is installed, no script element with source
\* u that the page appended, directly or inside a subtree, is in the document.
C9_ObserverRemovesAdded ==
  \A e \in doc : e.how \in {"direct", "nested"} => e.src \notin observed

\* C10: a storage failure makes the operation a no-op: after one checkbox
\* toggle whose handler has completed, the Blocked Map is either the prior map
\* (some storage call failed) or the prior map with that one key changed.
C10_FailureIsNoOp ==
  OnlyToggles(1) =>
    store \in { store0, updateBlockedEntry(store0, ch[1].raw, ch[1].on) }

\* C11: every key of the Blocked Map is a fully resolved absolute URL: the
\* relative source /app.js on https://example.com/page resolves to
\* https://example.com/app.js, and a raw value that does not resolve is never
\* a key.
IsAbsolute(u) == u \in AbsUrls \/ \E b \in {TabUrl, PopupUrl} : u = Origin(b) \o RelApp
C11_KeysAbsolute ==
  /\ toAbsolute(RelApp, TabUrl) = "https://example.com/app.js"
  /\ \A k \in store : IsAbsolute(k)

Listed == list.msg = "" /\ Len(list.rows) > 0
C13_PopupStates ==
  /\ MsgNoTab # MsgNoJs /\ MsgNoTab # MsgError /\ MsgNoJs # MsgError
  /\ \A h \in Active : hpc[h] # "threw"
  /\ LoadDone =>
       /\ tabCase # "ok" => list = MsgList(MsgNoTab)
       /\ (tabCase = "ok" /\ restricted) => list = MsgList(MsgError)
       /\ ~ProbeFails => \E h \in Active :
             IF Len(scripts[h]) > 0 THEN Listed ELSE list = MsgList(MsgNoJs)

\* C14: the write a save click issues under the tab's key holds exactly the URLs
\* of the rows checked at the click, and a reload is issued only when no write
\* under the tab's key is still pending.
C14_ReloadAfterWrite ==
  [][ /\ (Len(qT') > Len(qT)) =>
           { qT'[Len(qT')].val[i] : i \in 1..Len(qT'[Len(qT')].val) }
             = { list.rows[i].url : i \in { j \in 1..Len(list.rows) : list.rows[j].checked } }
      /\ (reloadPending' > reloadPending) =>
           \A i \in 1..Len(qT') : qT'[i].op # "set" ]_vars

\* C15: in a popup whose only user events were checkbox toggles, once loading
\* and every change handler have completed, the URL of a row is a key of the
\* Blocked Map if and only if the checkbox of that row is checked.
C15_QuiescentConsistency ==
  \A n \in 1..MaxEvents :
    (OnlyToggles(n) /\ LoadDone) =>
      \A i \in 1..Len(list.rows) : (list.rows[i].url \in store) = list.rows[i].checked

\* C16: the sweep removes only script elements that have a source whose resolved
\* form is in the set of URLs passed to that injection, and the observer removes
\* an appended element only when it has a source whose resolved form is in an
\* observed set; an element without source or with a source outside the set
\* stays; a call without tab id or with no URL changes nothing in the page.
PassedUrls ==
  (IF call # NoCall /\ call' = NoCall THEN call.urls ELSE {})
    \cup { ch[h].urlKey : h \in { k \in Events : ch[k].pc = "inject" /\ ch'[k].pc = "done" } }
    \cup (orphanInj \ orphanInj')
C16_NoCollateralRemoval ==
  [][ /\ (reloadPending' = reloadPending /\ adds' = adds) =>
           \A e \in doc \ doc' :
             e.src # "" /\ toAbsolute(e.src, TabUrl) \in { toAbsolute(u, TabUrl) : u \in PassedUrls }
      /\ (call # NoCall /\ call' = NoCall /\ (call.tabId # "ok" \/ call.urls = {})) =>
           (doc' = doc /\ observed' = observed)
      /\ (adds' > adds /\ lastAdd' \notin doc') =>
           (lastAdd'.src # "" /\ toAbsolute(lastAdd'.src, TabUrl) \in observed) ]_vars
\* a call with {A} on the page with A, B and an inline script removed A alone,
\* and an inline script the page appended afterwards stayed
C16_Witness ==
  /\ call = NoCall /\ observed = {A}
  /\ page = FullPage /\ doc = (FullPage \ {ElA}) \cup {Elem("", "direct")}
  /\ lastAdd = Elem("", "direct")

\* C17: an observed URL stays observed until the tab is reloaded; and once a
\* handler has completed the uncheck of u and u is no longer in the Blocked
\* Map, a script element with resolved source u that the page appends while u
\* is observed is removed.
Unchecked(u) == \E h \in Events : Finished(h) /\ ~ch[h].on /\ ch[h].raw = u
C17_ObserverPersists ==
  [][ /\ (reloadPending' >= reloadPending) => observed \subseteq observed'
      /\ \A u \in observed :
           ( /\ adds' > adds
             /\ toAbsolute(lastAdd'.src, TabUrl) = u
             /\ u \notin store /\ Unchecked(u) ) => lastAdd' \notin doc' ]_vars

\* C18: a click on the refresh button while the list shows rows raises the
\* number of reloads issued by exactly one; and in the popup of script.js, once
\* loading has finished, the button has a listener, so that a click issues at
\* least one reload.
C18_SingleReload ==
  [][ /\ (variant = "script" /\ Listed /\ nEvents' > nEvents /\ reloadPending' > reloadPending)
           => reloadPending' = reloadPending + 1
      /\ (variant = "script" /\ LoadDone) => refreshListeners >= 1 ]_vars

====
